---- MODULE Spec2Model ----
(***************************************************************************)
(* Model of the Minesweeper board engine (class MinesweeperGame of         *)
(* src/minesweeper.cpp, declared in minesweeper.h) and of the way the      *)
(* startup layer (src/main.cpp) configures it.                             *)
(*                                                                         *)
(* One action per public operation of the engine.  revealCell is modelled  *)
(* as the recursive function the code is, with the neighbour order and the *)
(* per-call win check of the code.  The shuffle of placeMines is a         *)
(* nondeterministic choice of the mined candidates.                        *)
(***************************************************************************)
EXTENDS Integers, Sequences, FiniteSets, TLC

\* ------------------------------------------------------------------ bounds
\* Boards of at most MaxRows rows, MaxCols columns and MaxCells cells are
\* explored.
MaxRows == 2
MaxCols == 3
MaxCells == 6
\* toggleFlag is not explored beyond this value of the counter minesFlagged.
MaxFlagged == 1
\* Command-line arguments of at most MaxArgLen characters are explored, at
\* most MaxArgs of them, and int is IntBits wide in main().
MaxArgLen == 2
MaxArgs == 4
IntBits == 6

\* --------------------------------------------------------------- the state
VARIABLES
    rows, cols, numMines,   \* configuration, fixed at construction
    board,                  \* <<r, c>> -> Cell
    status,                 \* GameStatus
    minesFlagged,
    cellsRevealed,
    gameOver,
    firstClick,
    op,                     \* the last call made on the engine and its result
    argv,                   \* argv[1 .. argc-1], each a sequence of characters
    pc,                     \* "main" before the window is constructed, then "run"
    ui                      \* what the window's widgets show

vars == <<rows, cols, numMines, board, status, minesFlagged, cellsRevealed,
          gameOver, firstClick, op, argv, pc, ui>>

\* enum class GameStatus { PLAYING, WON, LOST }
GameStatus == {"PLAYING", "WON", "LOST"}

\* struct Cell, default-initialised
Cell == [isMine |-> FALSE, isRevealed |-> FALSE, isFlagged |-> FALSE,
         adjacentMines |-> 0]

\* The coordinates of the grid: board[r][c] exists for these.
Grid == (0 .. rows - 1) \X (0 .. cols - 1)

\* The engine's fields as one record, threaded through the (recursive)
\* member functions; ret is the value the call returns.  calls, depth and
\* maxDepth are no fields of the class: they follow the execution of one
\* revealCell call from outside, as the number of calls that passed the guard
\* of line 88, the number of such calls in progress and its maximum.
Game == [board |-> board, status |-> status, minesFlagged |-> minesFlagged,
         cellsRevealed |-> cellsRevealed, gameOver |-> gameOver,
         firstClick |-> firstClick, ret |-> FALSE,
         calls |-> 0, depth |-> 0, maxDepth |-> 0]

\* bool MinesweeperGame::isValid(int r, int c) const
isValid(r, c) == r >= 0 /\ r < rows /\ c >= 0 /\ c < cols

\* ------------------------------------------------------------------- reset
\* reset without firstClick = true.
reset_KeepsFirstClick(g) ==
    [g EXCEPT !.board = [p \in Grid |-> Cell],
              !.status = "PLAYING",
              !.minesFlagged = 0,
              !.cellsRevealed = 0,
              !.gameOver = FALSE]

\* void MinesweeperGame::reset()
reset(g) ==
    [g EXCEPT !.board = [p \in Grid |-> Cell],
              !.status = "PLAYING",
              !.minesFlagged = 0,
              !.cellsRevealed = 0,
              !.gameOver = FALSE,
              !.firstClick = TRUE]

\* -------------------------------------------------------------- placeMines
\* The loops over dr, dc in placeMines: (r, c) is in the 3x3 block around
\* the safe cell.
IsSafeZone_NoNeighbours(r, c, safeRow, safeCol) ==
    r = safeRow /\ c = safeCol

IsSafeZone(r, c, safeRow, safeCol) ==
    \E dr \in -1 .. 1 : \E dc \in -1 .. 1 :
        r = safeRow + dr /\ c = safeCol + dc

\* potentialMineLocations, as a set (its order is destroyed by the shuffle)
potentialMineLocations(safeRow, safeCol) ==
    {p \in Grid : ~IsSafeZone(p[1], p[2], safeRow, safeCol)}

\* std::min(numMines, (int)potentialMineLocations.size())
minesToPlace_OffByOne(safeRow, safeCol) ==
    LET size == Cardinality(potentialMineLocations(safeRow, safeCol))
    IN  IF numMines < size - 1 THEN numMines
        ELSE IF size > 0 THEN size - 1 ELSE 0

minesToPlace(safeRow, safeCol) ==
    LET size == Cardinality(potentialMineLocations(safeRow, safeCol))
    IN  IF numMines < size THEN numMines ELSE size

\* The outcomes of std::shuffle followed by taking the first minesToPlace
\* entries: every subset of the candidates of that size.
Shuffles(safeRow, safeCol) ==
    {M \in SUBSET potentialMineLocations(safeRow, safeCol) :
        Cardinality(M) = minesToPlace(safeRow, safeCol)}

\* void MinesweeperGame::placeMines(int safeRow, int safeCol), where M is
\* the set of the first minesToPlace entries after the shuffle.
placeMines(g, M) ==
    [g EXCEPT !.board = [p \in Grid |-> [g.board[p] EXCEPT !.isMine = (p \in M)]]]

\* -------------------------------------------------- calculateAdjacentMines
\* Offsets whose diagonal entries are replaced by straight ones.
Offsets_NoDiagonals == << <<-1, 0>>, <<-1, 0>>, <<-1, 0>>,
                          << 0, -1>>,           << 0, 1>>,
                          << 1, 0>>, << 1, 0>>, << 1, 0>> >>

\* The eight (dr, dc) offsets in the order of the nested loops, (0,0) skipped.
Offsets == << <<-1, -1>>, <<-1, 0>>, <<-1, 1>>,
              << 0, -1>>,            << 0, 1>>,
              << 1, -1>>, << 1, 0>>, << 1, 1>> >>

\* A count that forgets the diagonal neighbours.
countFrom_Orthogonal(b, r, c) ==
    Cardinality({i \in 1 .. Len(Offsets) :
        /\ Offsets[i][1] = 0 \/ Offsets[i][2] = 0
        /\ isValid(r + Offsets[i][1], c + Offsets[i][2])
        /\ b[<<r + Offsets[i][1], c + Offsets[i][2]>>].isMine})

\* The inner loops of calculateAdjacentMines: count is incremented once for
\* every offset (dr, dc) whose cell is in the grid and is a mine.
countFrom(b, r, c) ==
    Cardinality({i \in 1 .. Len(Offsets) :
        /\ isValid(r + Offsets[i][1], c + Offsets[i][2])
        /\ b[<<r + Offsets[i][1], c + Offsets[i][2]>>].isMine})

\* void MinesweeperGame::calculateAdjacentMines()
calculateAdjacentMines(g) ==
    [g EXCEPT !.board = [p \in Grid |->
        [g.board[p] EXCEPT !.adjacentMines =
            IF g.board[p].isMine THEN -1
            ELSE countFrom(g.board, p[1], p[2])]]]

\* ------------------------------------------------------- checkWinCondition
\* checkWinCondition without gameOver = true.
checkWinCondition_NoGameOver(g) ==
    IF g.status = "PLAYING" /\ g.cellsRevealed = rows * cols - numMines
    THEN [g EXCEPT !.status = "WON",
                   !.board = [p \in Grid |->
                       IF g.board[p].isMine /\ ~g.board[p].isRevealed
                       THEN [g.board[p] EXCEPT !.isFlagged = TRUE]
                       ELSE g.board[p]],
                   !.minesFlagged = numMines]
    ELSE g

\* checkWinCondition without the loop that flags the remaining mines.
checkWinCondition_NoAutoFlag(g) ==
    IF g.status = "PLAYING" /\ g.cellsRevealed = rows * cols - numMines
    THEN [g EXCEPT !.status = "WON",
                   !.gameOver = TRUE,
                   !.minesFlagged = numMines]
    ELSE g

\* void MinesweeperGame::checkWinCondition()
checkWinCondition(g) ==
    IF g.status = "PLAYING" /\ g.cellsRevealed = rows * cols - numMines
    THEN [g EXCEPT !.status = "WON",
                   !.gameOver = TRUE,
                   !.board = [p \in Grid |->
                       IF g.board[p].isMine /\ ~g.board[p].isRevealed
                       THEN [g.board[p] EXCEPT !.isFlagged = TRUE]
                       ELSE g.board[p]],
                   !.minesFlagged = numMines]
    ELSE g

\* -------------------------------------------------------------- revealCell
\* The guard of revealCell without the flag test.
revealRejected_IgnoresFlag(g, r, c) ==
    g.gameOver \/ ~isValid(r, c) \/ g.board[<<r, c>>].isRevealed

\* The guard of revealCell without the game-over test.
revealRejected_IgnoresGameOver(g, r, c) ==
    ~isValid(r, c) \/ g.board[<<r, c>>].isRevealed \/ g.board[<<r, c>>].isFlagged

\* The guard of revealCell letting revealed cells with a count pass again.
revealRejected_RevealedNumbered(g, r, c) ==
    g.gameOver \/ ~isValid(r, c)
               \/ (g.board[<<r, c>>].isRevealed /\ g.board[<<r, c>>].adjacentMines = 0)
               \/ g.board[<<r, c>>].isFlagged

\* The first statement of revealCell: the call is rejected.
revealRejected(g, r, c) ==
    g.gameOver \/ ~isValid(r, c) \/ g.board[<<r, c>>].isRevealed
               \/ g.board[<<r, c>>].isFlagged

\* markRevealed without firstClick = false.
markRevealed_KeepsFirstClick(g, r, c, M) ==
    LET placed == IF g.firstClick
                  THEN calculateAdjacentMines(placeMines(g, M))
                  ELSE g
    IN  [placed EXCEPT !.board[<<r, c>>].isRevealed = TRUE,
                       !.cellsRevealed = @ + 1,
                       !.calls = @ + 1,
                       !.depth = @ + 1,
                       !.maxDepth = IF g.depth + 1 > @ THEN g.depth + 1 ELSE @]

\* Lines 92-99 of revealCell: the first call places the mines and computes
\* the counts; the cell is marked revealed and counted.  M is what the
\* shuffle yields should this call place the mines.
markRevealed(g, r, c, M) ==
    LET placed == IF g.firstClick
                  THEN [calculateAdjacentMines(placeMines(g, M))
                           EXCEPT !.firstClick = FALSE]
                  ELSE g
    IN  [placed EXCEPT !.board[<<r, c>>].isRevealed = TRUE,
                       !.cellsRevealed = @ + 1,
                       !.calls = @ + 1,
                       !.depth = @ + 1,
                       !.maxDepth = IF g.depth + 1 > @ THEN g.depth + 1 ELSE @]

RECURSIVE revealCell(_, _, _, _)

\* bool MinesweeperGame::revealCell(int r, int c).  In the dr, dc loops the
\* eight recursive calls are made one after the other in the order of the
\* code, n1 .. n8 being the states they leave (the values they return are
\* dropped); checkWinCondition runs on the state after the last one.
revealCell(g, r, c, M) ==
    IF revealRejected(g, r, c) THEN [g EXCEPT !.ret = FALSE]
    ELSE
    LET revealed == markRevealed(g, r, c, M)
    IN  IF revealed.board[<<r, c>>].isMine
        THEN [revealed EXCEPT !.status = "LOST", !.gameOver = TRUE, !.ret = TRUE,
                              !.depth = @ - 1]
        ELSE IF revealed.board[<<r, c>>].adjacentMines # 0
        THEN [checkWinCondition(revealed) EXCEPT !.ret = TRUE, !.depth = @ - 1]
        ELSE
        LET n1 == revealCell(revealed, r + Offsets[1][1], c + Offsets[1][2], M)
            n2 == revealCell(n1, r + Offsets[2][1], c + Offsets[2][2], M)
            n3 == revealCell(n2, r + Offsets[3][1], c + Offsets[3][2], M)
            n4 == revealCell(n3, r + Offsets[4][1], c + Offsets[4][2], M)
            n5 == revealCell(n4, r + Offsets[5][1], c + Offsets[5][2], M)
            n6 == revealCell(n5, r + Offsets[6][1], c + Offsets[6][2], M)
            n7 == revealCell(n6, r + Offsets[7][1], c + Offsets[7][2], M)
            n8 == revealCell(n7, r + Offsets[8][1], c + Offsets[8][2], M)
        IN  IF Len(<<n1, n2, n3, n4, n5, n6, n7, n8>>) = Len(Offsets)
            THEN [checkWinCondition(n8) EXCEPT !.ret = TRUE, !.depth = @ - 1]
            ELSE revealed

\* -------------------------------------------------------------- toggleFlag
\* toggleFlag without the game-over test.
toggleFlag_IgnoresGameOver(g, r, c) ==
    IF ~isValid(r, c) \/ g.board[<<r, c>>].isRevealed
    THEN [g EXCEPT !.ret = FALSE]
    ELSE LET flipped == [g EXCEPT !.board[<<r, c>>].isFlagged = ~@]
         IN  [flipped EXCEPT
                 !.minesFlagged = IF flipped.board[<<r, c>>].isFlagged
                                  THEN @ + 1 ELSE @ - 1,
                 !.ret = TRUE]

\* toggleFlag that counts every toggle as a new flag.
toggleFlag_AlwaysIncrements(g, r, c) ==
    IF g.gameOver \/ ~isValid(r, c) \/ g.board[<<r, c>>].isRevealed
    THEN [g EXCEPT !.ret = FALSE]
    ELSE [g EXCEPT !.board[<<r, c>>].isFlagged = ~@,
                   !.minesFlagged = @ + 1,
                   !.ret = TRUE]

\* toggleFlag without the test of isRevealed.
toggleFlag_IgnoresRevealed(g, r, c) ==
    IF g.gameOver \/ ~isValid(r, c)
    THEN [g EXCEPT !.ret = FALSE]
    ELSE LET flipped == [g EXCEPT !.board[<<r, c>>].isFlagged = ~@]
         IN  [flipped EXCEPT
                 !.minesFlagged = IF flipped.board[<<r, c>>].isFlagged
                                  THEN @ + 1 ELSE @ - 1,
                 !.ret = TRUE]

\* bool MinesweeperGame::toggleFlag(int r, int c)
toggleFlag(g, r, c) ==
    IF g.gameOver \/ ~isValid(r, c) \/ g.board[<<r, c>>].isRevealed
    THEN [g EXCEPT !.ret = FALSE]
    ELSE LET flipped == [g EXCEPT !.board[<<r, c>>].isFlagged = ~@]
         IN  [flipped EXCEPT
                 !.minesFlagged = IF flipped.board[<<r, c>>].isFlagged
                                  THEN @ + 1 ELSE @ - 1,
                 !.ret = TRUE]

\* ---------------------------------------------------------- revealAllMines
\* revealAllMines that also reveals the wrongly flagged cells.
revealAllMines_RevealsWrongFlags(g) ==
    [g EXCEPT !.board = [p \in Grid |->
        IF g.board[p].isMine /\ ~g.board[p].isFlagged
        THEN [g.board[p] EXCEPT !.isRevealed = TRUE]
        ELSE IF ~g.board[p].isMine /\ g.board[p].isFlagged
        THEN [g.board[p] EXCEPT !.isFlagged = FALSE, !.isRevealed = TRUE]
        ELSE g.board[p]]]

\* revealAllMines that reveals the flagged mines as well.
revealAllMines_RevealsFlaggedMines(g) ==
    [g EXCEPT !.board = [p \in Grid |->
        IF g.board[p].isMine
        THEN [g.board[p] EXCEPT !.isRevealed = TRUE]
        ELSE IF g.board[p].isFlagged
        THEN [g.board[p] EXCEPT !.isFlagged = FALSE]
        ELSE g.board[p]]]

\* void MinesweeperGame::revealAllMines()
revealAllMines(g) ==
    [g EXCEPT !.board = [p \in Grid |->
        IF g.board[p].isMine /\ ~g.board[p].isFlagged
        THEN [g.board[p] EXCEPT !.isRevealed = TRUE]
        ELSE IF ~g.board[p].isMine /\ g.board[p].isFlagged
        THEN [g.board[p] EXCEPT !.isFlagged = FALSE]
        ELSE g.board[p]]]

\* -------------------------------------------------------------------- main
\* The values of int.
IntMin == -(2 ^ (IntBits - 1))
IntMax == 2 ^ (IntBits - 1) - 1

\* The characters the explored arguments are made of: two digits, the sign
\* and a character that is neither.
Chars == {"0", "3", "-", "x"}

DigitValue(ch) ==
    CHOOSE d \in 0 .. 9 : <<"0", "1", "2", "3", "4", "5", "6", "7", "8", "9">>[d + 1] = ch

IsDigit(ch) == ch \in {"0", "1", "2", "3", "4", "5", "6", "7", "8", "9"}

RECURSIVE digitsFrom(_, _, _)
\* The conversion loop of strtol: <<value, next index>> of the longest run of
\* digits of s that starts at index i, acc being the value read so far.
digitsFrom(s, i, acc) ==
    IF i <= Len(s) /\ IsDigit(s[i])
    THEN digitsFrom(s, i + 1, acc * 10 + DigitValue(s[i]))
    ELSE <<acc, i>>

\* int std::stoi(const std::string&): an optional sign, then digits; what
\* follows the digits is ignored.  thrown is "" when a value is returned.
stoi(s) ==
    LET negative == Len(s) >= 1 /\ s[1] = "-"
        first == IF negative THEN 2 ELSE 1
        read == digitsFrom(s, first, 0)
        value == IF negative THEN -read[1] ELSE read[1]
    IN  IF read[2] = first
        THEN [thrown |-> "invalid_argument", value |-> 0]
        ELSE IF value < IntMin \/ value > IntMax
        THEN [thrown |-> "out_of_range", value |-> 0]
        ELSE [thrown |-> "", value |-> value]

\* int rows = 10; int cols = 10; int mines = 15;
DefaultConfig == <<10, 10, 15>>

\* The values arg_rows * arg_cols may have: the product, or any int when
\* the multiplication overflows (undefined behaviour).
Product(a, b) == IF a * b \in IntMin .. IntMax THEN {a * b} ELSE IntMin .. IntMax

\* The test of line 20 without its upper bound on the mines.
Accepted_NoUpperBound(r, c, m) ==
    IF r > 0 /\ c > 0 /\ m >= 0 THEN {TRUE} ELSE {FALSE}

\* The test of line 20, evaluated left to right: its possible results.
Accepted(r, c, m) ==
    IF r > 0 /\ c > 0 /\ m >= 0
    THEN {m < prod : prod \in Product(r, c)}
    ELSE {FALSE}

\* The exceptions main() catches.
Caught == {"invalid_argument", "out_of_range"}

\* main() up to the construction of the window: the configurations it may
\* pass to MinesweeperWindow for the arguments av, or aborted when an
\* exception leaves main().
main(av) ==
    IF Len(av) + 1 = 4
    THEN LET arg_rows == stoi(av[1])
             arg_cols == stoi(av[2])
             arg_mines == stoi(av[3])
             thrown == IF arg_rows.thrown # "" THEN arg_rows.thrown
                       ELSE IF arg_cols.thrown # "" THEN arg_cols.thrown
                       ELSE arg_mines.thrown
         IN  IF thrown # ""
             THEN {[aborted |-> thrown \notin Caught, cfg |-> DefaultConfig]}
             ELSE {[aborted |-> FALSE,
                    cfg |-> IF ok
                            THEN <<arg_rows.value, arg_cols.value, arg_mines.value>>
                            ELSE DefaultConfig] :
                      ok \in Accepted(arg_rows.value, arg_cols.value,
                                      arg_mines.value)}
    ELSE {[aborted |-> FALSE, cfg |-> DefaultConfig]}

\* The decimal digits of n, 0 <= n <= 99, as std::stoi reads them back.
Numeral(n) ==
    LET digit(d) == <<"0", "1", "2", "3", "4", "5", "6", "7", "8", "9">>[d + 1]
    IN  IF n < 10 THEN <<digit(n)>> ELSE <<digit(n \div 10), digit(n % 10)>>

\* The arguments of at most MaxArgLen characters.
Strings == UNION {[1 .. n -> Chars] : n \in 0 .. MaxArgLen}

\* The command lines explored: every three arguments, and every other
\* number of arguments (main() reads none of them then).
CommandLines ==
    [1 .. 3 -> Strings] \cup {[i \in 1 .. n |-> <<"3">>] : n \in 0 .. MaxArgs}

\* ------------------------------------------------------------------ getters
\* int MinesweeperGame::getMinesRemaining() const
getMinesRemaining == numMines - minesFlagged

\* -------------------------------------------------------------- the window
\* The widgets before MinesweeperWindow::run() has created them, and of an
\* engine that is driven without a window.
NoUI == [cells |-> << >>, minesLabel |-> "", statusLabel |-> "", resetFace |-> ""]

\* const char* colors[] of updateUI
colors == <<"blue", "green", "red", "darkblue", "brown", "cyan", "black", "gray">>

\* The body of updateUI's loops: what the button of a cell is made to show.
\* The flag test comes first, so a flagged cell shows its flag.
renderCell(cell) ==
    IF cell.isFlagged
    THEN [label |-> "flag", relief |-> "NORMAL", css |-> "", sensitive |-> TRUE]
    ELSE IF cell.isRevealed
    THEN IF cell.isMine
         THEN [label |-> "mine", relief |-> "NONE", css |-> "background-red",
               sensitive |-> FALSE]
         ELSE IF cell.adjacentMines > 0
         THEN [label |-> ToString(cell.adjacentMines), relief |-> "NONE",
               css |-> IF cell.adjacentMines <= 8
                       THEN colors[cell.adjacentMines] ELSE "",
               sensitive |-> FALSE]
         ELSE [label |-> "", relief |-> "NONE", css |-> "", sensitive |-> FALSE]
    ELSE [label |-> "", relief |-> "NORMAL", css |-> "", sensitive |-> TRUE]

\* void MinesweeperWindow::disableAllButtons()
disableAllButtons(cells) ==
    [p \in DOMAIN cells |-> [cells[p] EXCEPT !.sensitive = FALSE]]

\* void MinesweeperWindow::updateUI(): the buttons are drawn from the board,
\* then the labels are set and, in the LOST case of the switch, the engine's
\* revealAllMines() is called; the buttons are not drawn again.
updateUI(g) ==
    LET drawn == [p \in Grid |-> renderCell(g.board[p])]
        after == IF g.status = "LOST" THEN revealAllMines(g) ELSE g
    IN  [game |-> after,
         ui |-> [cells |-> IF after.gameOver THEN disableAllButtons(drawn) ELSE drawn,
                 minesLabel |-> ToString(numMines - g.minesFlagged),
                 statusLabel |-> CASE g.status = "PLAYING" -> "Playing..."
                                   [] g.status = "WON" -> "You Won!"
                                   [] g.status = "LOST" -> "Game Over!",
                 resetFace |-> CASE g.status = "PLAYING" -> "happy"
                                 [] g.status = "WON" -> "cool"
                                 [] g.status = "LOST" -> "dead"]]

\* gboolean MinesweeperWindow::onCellClicked for mouse button b on the
\* button of cell (r, c), u being what the widgets show before.
onCellClicked(g, u, b, r, c, M) ==
    IF g.gameOver THEN [game |-> g, ui |-> u]
    ELSE LET called == IF b = 1 THEN revealCell(g, r, c, M)
                       ELSE IF b = 3 THEN toggleFlag(g, r, c)
                       ELSE [g EXCEPT !.ret = FALSE]
         IN  IF called.ret \/ called.gameOver
             THEN updateUI(called)
             ELSE [game |-> called, ui |-> u]

\* void MinesweeperWindow::onResetClicked: reset(), createBoardUI(), updateUI()
onResetClicked(g) == updateUI(reset(g))

\* ------------------------------------------------------------- the actions
\* The configurations main() accepts: rows > 0, cols > 0, 0 <= mines < rows*cols
Configs ==
    {cfg \in (1 .. MaxRows) \X (1 .. MaxCols) \X (0 .. MaxCells) :
        /\ cfg[1] * cfg[2] <= MaxCells
        /\ cfg[1] > 0 /\ cfg[2] > 0 /\ cfg[3] >= 0 /\ cfg[3] < cfg[1] * cfg[2]}

\* The coordinates a caller may pass: every cell of the grid, and one
\* coordinate beyond each of its four edges.
Args == Grid \cup {<<-1, 0>>, <<rows, 0>>, <<0, -1>>, <<0, cols>>}

\* The engine's fields take the values of record g.
Becomes(g) ==
    /\ board' = g.board
    /\ status' = g.status
    /\ minesFlagged' = g.minesFlagged
    /\ cellsRevealed' = g.cellsRevealed
    /\ gameOver' = g.gameOver
    /\ firstClick' = g.firstClick
    /\ UNCHANGED <<rows, cols, numMines, argv, pc>>

\* The record of a call: its name, arguments and result and, for reveal,
\* the number of revealCell calls that passed the guard and their deepest
\* nesting.
Call(name, r, c, ret) ==
    [name |-> name, r |-> r, c |-> c, ret |-> ret, calls |-> 0, depth |-> 0]

\* MinesweeperGame::MinesweeperGame(int r, int c, int m), with the values
\* main() passes.
Init ==
    \E cfg \in Configs :
        /\ rows = cfg[1]
        /\ cols = cfg[2]
        /\ numMines = cfg[3]
        /\ board = [p \in (0 .. cfg[1] - 1) \X (0 .. cfg[2] - 1) |-> Cell]
        /\ status = "PLAYING"
        /\ minesFlagged = 0
        /\ cellsRevealed = 0
        /\ gameOver = FALSE
        /\ firstClick = TRUE
        /\ op = Call("construct", 0, 0, FALSE)
        /\ argv = <<Numeral(cfg[1]), Numeral(cfg[2]), Numeral(cfg[3])>>
        /\ pc = "run"
        /\ ui = NoUI

Reset ==
    /\ Becomes(reset(Game))
    /\ op' = Call("reset", 0, 0, FALSE)
    /\ UNCHANGED ui

Reveal ==
    \E a \in Args :
        \E M \in (IF firstClick /\ isValid(a[1], a[2])
                  THEN Shuffles(a[1], a[2]) ELSE {{}}) :
            \E g \in {revealCell(Game, a[1], a[2], M)} :
                /\ Becomes(g)
                /\ op' = [Call("reveal", a[1], a[2], g.ret)
                             EXCEPT !.calls = g.calls, !.depth = g.maxDepth]
                /\ UNCHANGED ui

ToggleFlag ==
    \E a \in Args :
        \E g \in {toggleFlag(Game, a[1], a[2])} :
            /\ g.ret => g.minesFlagged <= MaxFlagged
            /\ Becomes(g)
            /\ op' = Call("toggleFlag", a[1], a[2], g.ret)
            /\ UNCHANGED ui

RevealAllMines ==
    /\ Becomes(revealAllMines(Game))
    /\ op' = Call("revealAllMines", 0, 0, FALSE)
    /\ UNCHANGED ui

Next == Reset \/ Reveal \/ ToggleFlag \/ RevealAllMines

Spec == Init /\ [][Next]_vars

\* ------------------------------------------------------------- the startup
\* The program at the entry of main(): its locals hold the defaults and no
\* engine exists yet.
InitMain ==
    /\ argv \in CommandLines
    /\ pc = "main"
    /\ rows = DefaultConfig[1]
    /\ cols = DefaultConfig[2]
    /\ numMines = DefaultConfig[3]
    /\ board = << >>
    /\ status = "PLAYING"
    /\ minesFlagged = 0
    /\ cellsRevealed = 0
    /\ gameOver = FALSE
    /\ firstClick = TRUE
    /\ op = Call("main", 0, 0, FALSE)
    /\ ui = NoUI

\* main() from its entry to the constructed window, whose engine is the
\* state MinesweeperGame's constructor leaves.
Main ==
    /\ pc = "main"
    /\ \E out \in main(argv) :
          IF out.aborted
          THEN /\ pc' = "aborted"
               /\ UNCHANGED <<rows, cols, numMines, board, status, minesFlagged,
                              cellsRevealed, gameOver, firstClick, op, argv, ui>>
          ELSE /\ pc' = "run"
               /\ rows' = out.cfg[1]
               /\ cols' = out.cfg[2]
               /\ numMines' = out.cfg[3]
               /\ board' = [p \in (0 .. out.cfg[1] - 1) \X (0 .. out.cfg[2] - 1) |-> Cell]
               /\ status' = "PLAYING"
               /\ minesFlagged' = 0
               /\ cellsRevealed' = 0
               /\ gameOver' = FALSE
               /\ firstClick' = TRUE
               /\ op' = Call("construct", 0, 0, FALSE)
               /\ UNCHANGED <<argv, ui>>

NextMain == Main

SpecMain == InitMain /\ [][NextMain]_vars

\* -------------------------------------------------------- the window's run
\* The state MinesweeperWindow::run() leaves when gtk_main() starts: the
\* engine as constructed, the buttons created and drawn once.
InitWindow ==
    \E cfg \in Configs :
        /\ rows = cfg[1]
        /\ cols = cfg[2]
        /\ numMines = cfg[3]
        /\ board = [p \in (0 .. cfg[1] - 1) \X (0 .. cfg[2] - 1) |-> Cell]
        /\ status = "PLAYING"
        /\ minesFlagged = 0
        /\ cellsRevealed = 0
        /\ gameOver = FALSE
        /\ firstClick = TRUE
        /\ op = Call("run", 0, 0, FALSE)
        /\ argv = <<Numeral(cfg[1]), Numeral(cfg[2]), Numeral(cfg[3])>>
        /\ pc = "run"
        /\ ui = [cells |-> [p \in (0 .. cfg[1] - 1) \X (0 .. cfg[2] - 1) |->
                                renderCell(Cell)],
                 minesLabel |-> ToString(cfg[3]),
                 statusLabel |-> "Playing...",
                 resetFace |-> "happy"]

\* The names of the mouse buttons 1, 2 and 3 in the record of a click.
ClickName == <<"leftClick", "middleClick", "rightClick">>

\* A press of mouse button b on the button of a cell of the grid.
OnCellClicked ==
    \E a \in Grid : \E b \in 1 .. 3 :
        \E M \in (IF firstClick /\ b = 1 THEN Shuffles(a[1], a[2]) ELSE {{}}) :
            \E w \in {onCellClicked(Game, ui, b, a[1], a[2], M)} :
                /\ (b = 3 /\ w.game.ret) => w.game.minesFlagged <= MaxFlagged
                /\ Becomes(w.game)
                /\ ui' = w.ui
                /\ op' = Call(ClickName[b], a[1], a[2], w.game.ret)

\* A click on the reset button.
OnResetClicked ==
    \E w \in {onResetClicked(Game)} :
        /\ Becomes(w.game)
        /\ ui' = w.ui
        /\ op' = Call("resetClick", 0, 0, FALSE)

NextWindow == OnCellClicked \/ OnResetClicked

SpecWindow == InitWindow /\ [][NextWindow]_vars

\* ------------------------------------------------------------------- types
TypeOK ==
    /\ status \in GameStatus
    /\ gameOver \in BOOLEAN
    /\ firstClick \in BOOLEAN
    /\ DOMAIN board = Grid
\* ------------------------------------------------- vocabulary of the claims
\* The cells of the 3x3 block centred on p that lie in the grid, p excluded.
Neighbours(p) ==
    {q \in Grid : q # p /\ q[1] - p[1] \in {-1, 0, 1} /\ q[2] - p[2] \in {-1, 0, 1}}

MineCells(b)     == {p \in DOMAIN b : b[p].isMine}
RevealedCells(b) == {p \in DOMAIN b : b[p].isRevealed}
FlaggedCells(b)  == {p \in DOMAIN b : b[p].isFlagged}

\* The cell the last call named.
OpCell == <<op.r, op.c>>

\* Everything of the engine but the record of the last call.
engine == <<rows, cols, numMines, board, status, minesFlagged, cellsRevealed,
            gameOver, firstClick>>

\* ---------------------------------------------------------------------- C1
\* C1: whenever a reveal call returns with every non-mine cell revealed and
\* no mine cell revealed, status is WON and game-over is true; on the 2x2
\* board with one configured mine a won game has exactly 3 revealed cells
\* and its one mine flagged.
C1_WinDetection ==
    /\ (/\ op.name = "reveal"
        /\ \A p \in Grid : board[p].isMine = ~board[p].isRevealed)
       => (status = "WON" /\ gameOver)
    /\ (rows = 2 /\ cols = 2 /\ numMines = 1 /\ status = "WON")
       => /\ cellsRevealed = 3
          /\ \E p \in Grid : board[p].isMine /\ board[p].isFlagged

\* ---------------------------------------------------------------------- C2
\* C2: in every state whose status is WON every non-mine cell is revealed.
C2_WonAllSafeExposed ==
    status = "WON" => \A p \in Grid : ~board[p].isMine => board[p].isRevealed

\* ---------------------------------------------------------------------- C3
\* C3: the first accepted reveal(r, c) of a game places no mine on (r, c) or
\* on any grid cell of the 3x3 block around it, and does not lose the game,
\* whatever the coordinate and whatever was flagged before.
C3_FirstClickSafe ==
    [][(firstClick /\ op'.name = "reveal" /\ op'.ret)
       => /\ ~board'[<<op'.r, op'.c>>].isMine
          /\ \A q \in Neighbours(<<op'.r, op'.c>>) : ~board'[q].isMine
          /\ status' # "LOST"
          /\ ~firstClick']_vars

\* A first reveal on a board that got mines, made while a cell was flagged:
\* the clicked cell is the only revealed one because its neighbours are flagged.
C3_Witness ==
    /\ op.name = "reveal" /\ op.ret
    /\ status = "PLAYING"
    /\ cellsRevealed = 1 /\ RevealedCells(board) = {OpCell}
    /\ MineCells(board) # {}
    /\ FlaggedCells(board) # {}

\* ---------------------------------------------------------------------- C4
\* C4: after the first accepted reveal(r, c) the number of mine cells is
\* min(numMines, rows*cols - Z), Z the number of grid cells of the 3x3 block
\* around (r, c); placement is possible for every first click.
C4_MineCount ==
    [][/\ firstClick => \A p \in Grid : Shuffles(p[1], p[2]) # {}
       /\ (firstClick /\ op'.name = "reveal" /\ op'.ret)
          => LET Z    == Cardinality(Neighbours(<<op'.r, op'.c>>)) + 1
                 room == rows * cols - Z
             IN  Cardinality(MineCells(board')) =
                     IF numMines <= room THEN numMines ELSE room]_vars

\* A game whose first reveal placed some mines, but fewer than configured.
C4_Witness ==
    /\ ~firstClick /\ op.name = "reveal" /\ op.ret
    /\ MineCells(board) # {}
    /\ Cardinality(MineCells(board)) < numMines

\* ---------------------------------------------------------------------- C5
\* C5: once mines are placed, every mine cell has adjacentMines = -1 and
\* every other cell has adjacentMines equal to the number of mines among
\* its neighbours in the grid.
C5_Adjacency ==
    ~firstClick =>
        \A p \in Grid :
            IF board[p].isMine
            THEN board[p].adjacentMines = -1
            ELSE /\ board[p].adjacentMines =
                        Cardinality(Neighbours(p) \cap MineCells(board))
                 /\ board[p].adjacentMines \in 0 .. 8

\* After mine disclosure, a cell that counts two mines, one of them diagonal.
C5_Witness ==
    /\ ~firstClick /\ op.name = "revealAllMines"
    /\ \E p \in Grid : \E q \in Neighbours(p) :
          /\ board[p].adjacentMines = 2
          /\ board[q].isMine /\ q[1] # p[1] /\ q[2] # p[2]

\* ---------------------------------------------------------------------- C6
\* C6: revealing a hidden unflagged mine while PLAYING sets LOST and
\* game-over, returns true and reveals that cell only; while LOST every
\* reveal and toggleFlag returns false and changes nothing.
C6_Loss ==
    [][/\ (/\ status = "PLAYING" /\ op'.name = "reveal"
           /\ <<op'.r, op'.c>> \in Grid
           /\ board[<<op'.r, op'.c>>].isMine
           /\ ~board[<<op'.r, op'.c>>].isRevealed
           /\ ~board[<<op'.r, op'.c>>].isFlagged)
          => /\ status' = "LOST" /\ gameOver' /\ op'.ret
             /\ board' = [board EXCEPT ![<<op'.r, op'.c>>].isRevealed = TRUE]
             /\ cellsRevealed' = cellsRevealed + 1
             /\ UNCHANGED <<minesFlagged, firstClick>>
       /\ (status = "LOST" /\ op'.name \in {"reveal", "toggleFlag"})
          => (~op'.ret /\ UNCHANGED engine)]_vars

\* A toggleFlag on a hidden cell of the grid, rejected because the game is lost.
C6_Witness ==
    /\ status = "LOST" /\ gameOver
    /\ op.name = "toggleFlag" /\ ~op.ret
    /\ OpCell \in Grid /\ ~board[OpCell].isRevealed

\* ---------------------------------------------------------------------- C7
\* C7: status changes only from PLAYING to WON or LOST, or back to PLAYING
\* by reset.
C7_StatusMonotonic ==
    [][status' # status
       => \/ status = "PLAYING" /\ status' \in {"WON", "LOST"}
          \/ op'.name = "reset" /\ status' = "PLAYING"]_vars

\* A reveal of a mine cell made after the game was won.
C7_Witness ==
    /\ status = "WON"
    /\ op.name = "reveal" /\ OpCell \in Grid
    /\ board[OpCell].isMine /\ ~board[OpCell].isRevealed

\* ---------------------------------------------------------------------- C8
\* C8: reveal(r, c) returns false exactly when the game is over, (r, c) is
\* outside the grid, the cell is revealed or the cell is flagged, and then
\* nothing of the engine changes; otherwise it returns true.
C8_RevealRejection ==
    [][op'.name = "reveal"
       => LET r == op'.r
              c == op'.c
              rejected == \/ gameOver
                          \/ r < 0 \/ r >= rows \/ c < 0 \/ c >= cols
                          \/ board[<<r, c>>].isRevealed
                          \/ board[<<r, c>>].isFlagged
          IN  /\ op'.ret = ~rejected
              /\ rejected => UNCHANGED engine]_vars

\* A first reveal rejected because the cell is flagged: no mines get placed.
C8_Witness ==
    /\ op.name = "reveal" /\ ~op.ret
    /\ firstClick /\ ~gameOver
    /\ OpCell \in Grid /\ board[OpCell].isFlagged
\* ---------------------------------------------------------------------- C9
RECURSIVE ZeroRegion(_, _)
\* The cells connected to the cells of S through zero-adjacency cells of b,
\* S being zero-adjacency cells.
ZeroRegion(b, S) ==
    LET T == S \cup {q \in Grid : /\ b[q].adjacentMines = 0
                                  /\ \E p \in S : q \in Neighbours(p)}
    IN  IF T = S THEN S ELSE ZeroRegion(b, T)

\* The numbered cells next to a cell of S.
Border(b, S) ==
    {q \in Grid : b[q].adjacentMines > 0 /\ \E p \in S : q \in Neighbours(p)}

RECURSIVE CascadeSet(_, _, _)
\* The cells reached from S by steps from a zero-adjacency cell to a
\* neighbour in open.
CascadeSet(b, open, S) ==
    LET T == S \cup {q \in open : \E p \in S : /\ b[p].adjacentMines = 0
                                               /\ q \in Neighbours(p)}
    IN  IF T = S THEN S ELSE CascadeSet(b, open, T)

C10_RevealedCounter ==
    cellsRevealed = Cardinality(RevealedCells(board))

\* --------------------------------------------------------------------- C11
\* C11: in every state the counter minesFlagged is the number of cells whose
\* isFlagged is true, so getMinesRemaining() is the configured mine count
\* minus the number of flagged cells.
C11_FlaggedCounter ==
    /\ minesFlagged = Cardinality(FlaggedCells(board))
    /\ getMinesRemaining = numMines - Cardinality(FlaggedCells(board))

\* --------------------------------------------------------------------- C12
\* C12, as stated: in every WON state game-over is true, every mine cell is
\* flagged and not revealed, minesFlagged is the configured mine count and
\* getMinesRemaining() is 0.
C12_WonState ==
    status = "WON"
    => /\ gameOver
       /\ \A p \in MineCells(board) : board[p].isFlagged /\ ~board[p].isRevealed
       /\ minesFlagged = numMines
       /\ getMinesRemaining = 0

\* C12, amended: in every WON state game-over is true, minesFlagged is the
\* configured mine count, getMinesRemaining() is 0 and every mine cell is
\* flagged exactly when it is not revealed; a step that does not end in LOST
\* reveals a mine only if it is revealAllMines called while PLAYING.
C12_WonStateUnrevealedMines ==
    [][/\ status' = "WON"
          => /\ gameOver'
             /\ minesFlagged' = numMines'
             /\ numMines' - minesFlagged' = 0
             /\ \A p \in MineCells(board') :
                   board'[p].isFlagged = ~board'[p].isRevealed
       /\ (status' # "LOST" /\ ~(op'.name = "revealAllMines" /\ status = "PLAYING"))
          => (RevealedCells(board') \cap MineCells(board')) \subseteq
                 RevealedCells(board)]_vars

\* A reveal that wins a game with a mine left to flag, another mine having
\* been disclosed before.
C12_Witness ==
    /\ status = "WON" /\ op.name = "reveal" /\ op.ret
    /\ \E p \in MineCells(board) : board[p].isFlagged /\ ~board[p].isRevealed
    /\ \E p \in MineCells(board) : board[p].isRevealed /\ ~board[p].isFlagged

\* --------------------------------------------------------------------- C13
\* C13: reset(), called in any state, leaves every cell unrevealed,
\* unflagged, non-mine with adjacentMines 0, both counters 0, status PLAYING,
\* game-over false and firstClick true; rows, cols and the configured mine
\* count keep their values.
C13_Reset ==
    [][op'.name = "reset"
       => /\ DOMAIN board' = Grid
          /\ \A p \in Grid : /\ ~board'[p].isRevealed /\ ~board'[p].isFlagged
                              /\ ~board'[p].isMine /\ board'[p].adjacentMines = 0
          /\ cellsRevealed' = 0 /\ minesFlagged' = 0
          /\ status' = "PLAYING" /\ ~gameOver' /\ firstClick'
          /\ UNCHANGED <<rows, cols, numMines>>]_vars

\* The state a reset leaves on a board of several rows configured with mines.
C13_Witness ==
    /\ op.name = "reset"
    /\ rows > 1 /\ cols > 1 /\ numMines > 0
    /\ status = "PLAYING" /\ firstClick /\ MineCells(board) = {}

\* --------------------------------------------------------------------- C14
\* C14: when toggleFlag(r, c) returned true and the game is not over, a
\* second toggleFlag(r, c) returns true as well and restores the cell's
\* isFlagged, minesFlagged and getMinesRemaining() to their values before
\* the first call, every other field being as before the first call.
C14_ToggleRoundTrip ==
    [][(op'.name = "toggleFlag" /\ op'.ret)
       => LET second == toggleFlag(Game', op'.r, op'.c)
          IN  /\ second.ret
              /\ board'[<<op'.r, op'.c>>].isFlagged # board[<<op'.r, op'.c>>].isFlagged
              /\ second.board = board
              /\ second.minesFlagged = minesFlagged
              /\ numMines - second.minesFlagged = getMinesRemaining
              /\ [second EXCEPT !.ret = FALSE] = Game]_vars

\* The second of two toggles of a hidden cell: the flag set on a cell of a
\* game in progress has been taken off again.
C14_Witness ==
    /\ op.name = "toggleFlag" /\ op.ret
    /\ ~firstClick /\ status = "PLAYING"
    /\ ~board[OpCell].isFlagged /\ ~board[OpCell].isRevealed
    /\ minesFlagged = 0 /\ FlaggedCells(board) = {}

\* --------------------------------------------------------------------- C15
\* C15: toggleFlag(r, c) returns false and changes nothing if the game is
\* over, (r, c) is outside the grid or the cell is revealed; otherwise it
\* returns true, flips that cell's isFlagged, moves minesFlagged by +1 (flag
\* set) or -1 (flag cleared) and changes nothing else.
C15_ToggleFrame ==
    [][op'.name = "toggleFlag"
       => LET r == op'.r
              c == op'.c
              rejected == \/ gameOver
                          \/ r < 0 \/ r >= rows \/ c < 0 \/ c >= cols
                          \/ board[<<r, c>>].isRevealed
          IN  /\ op'.ret = ~rejected
              /\ rejected => UNCHANGED engine
              /\ ~rejected =>
                    /\ board' = [board EXCEPT ![<<r, c>>].isFlagged = ~@]
                    /\ minesFlagged' = IF board[<<r, c>>].isFlagged
                                       THEN minesFlagged - 1 ELSE minesFlagged + 1
                    /\ UNCHANGED <<status, gameOver, cellsRevealed, firstClick,
                                   rows, cols, numMines>>]_vars

\* A flag set on the last unflagged mine: every mine is flagged and the
\* game is still PLAYING.
C15_Witness ==
    /\ op.name = "toggleFlag" /\ op.ret
    /\ MineCells(board) # {} /\ MineCells(board) \subseteq FlaggedCells(board)
    /\ board[OpCell].isMine
    /\ status = "PLAYING" /\ ~gameOver

ValidTriple(av) ==
    /\ \A i \in 1 .. 3 : stoi(av[i]).thrown = ""
    /\ stoi(av[1]).value > 0 /\ stoi(av[2]).value > 0
    /\ stoi(av[3]).value >= 0
    /\ stoi(av[3]).value < stoi(av[1]).value * stoi(av[2]).value

\* C17: main() never aborts on its arguments and constructs the engine with
\* rows > 0, cols > 0 and 0 <= mineCount < rows * cols only; with a number
\* of arguments other than three, or three arguments that violate one of
\* these, the engine gets exactly (10, 10, 15); it never gets a mix of
\* supplied and default values.
C17_Startup ==
    /\ pc # "aborted"
    /\ pc = "run"
       => /\ rows > 0 /\ cols > 0 /\ numMines >= 0 /\ numMines < rows * cols
          /\ (Len(argv) # 3 \/ ~ValidTriple(argv))
                => <<rows, cols, numMines>> = DefaultConfig
          /\ \/ <<rows, cols, numMines>> = DefaultConfig
             \/ /\ Len(argv) = 3
                /\ <<rows, cols, numMines>> =
                      <<stoi(argv[1]).value, stoi(argv[2]).value, stoi(argv[3]).value>>

\* An engine constructed with the defaults because the three arguments,
\* all integers and the sizes positive, ask for as many mines as cells.
C17_Witness ==
    /\ pc = "run" /\ Len(argv) = 3
    /\ \A i \in 1 .. 3 : stoi(argv[i]).thrown = ""
    /\ stoi(argv[1]).value > 0 /\ stoi(argv[2]).value > 0
    /\ stoi(argv[3]).value >= stoi(argv[1]).value * stoi(argv[2]).value
    /\ <<rows, cols, numMines>> = DefaultConfig
    /\ DOMAIN board = Grid

\* --------------------------------------------------------------------- C18
RECURSIVE cascadeOnly(_, _, _, _)
\* The reveal the claim describes, without its win check: the cell is
\* revealed and, when it counts no mine, so are its neighbours in turn.
cascadeOnly(g, r, c, M) ==
    IF revealRejected(g, r, c) THEN g
    ELSE
    LET revealed == markRevealed(g, r, c, M)
    IN  IF revealed.board[<<r, c>>].isMine
        THEN [revealed EXCEPT !.status = "LOST", !.gameOver = TRUE]
        ELSE IF revealed.board[<<r, c>>].adjacentMines # 0
        THEN revealed
        ELSE
        LET n1 == cascadeOnly(revealed, r + Offsets[1][1], c + Offsets[1][2], M)
            n2 == cascadeOnly(n1, r + Offsets[2][1], c + Offsets[2][2], M)
            n3 == cascadeOnly(n2, r + Offsets[3][1], c + Offsets[3][2], M)
            n4 == cascadeOnly(n3, r + Offsets[4][1], c + Offsets[4][2], M)
            n5 == cascadeOnly(n4, r + Offsets[5][1], c + Offsets[5][2], M)
            n6 == cascadeOnly(n5, r + Offsets[6][1], c + Offsets[6][2], M)
            n7 == cascadeOnly(n6, r + Offsets[7][1], c + Offsets[7][2], M)
            n8 == cascadeOnly(n7, r + Offsets[8][1], c + Offsets[8][2], M)
        IN  IF Len(<<n1, n2, n3, n4, n5, n6, n7, n8>>) = Len(Offsets)
            THEN n8
            ELSE revealed

\* The whole cascade first, then the win condition evaluated a single time.
winCheckedAtEnd(g, r, c, M) ==
    IF revealRejected(g, r, c) THEN g
    ELSE LET done == cascadeOnly(g, r, c, M)
         IN  IF done.status = "LOST" THEN done ELSE checkWinCondition(done)

\* C18: every reveal call ends in the state (board, status, game-over,
\* counters) of a reveal that runs the whole cascade and evaluates the win
\* condition once, after it.
C18_WinCheckedOnce ==
    [][op'.name = "reveal"
       => LET once == winCheckedAtEnd(Game, op'.r, op'.c, MineCells(board'))
          IN  /\ board' = once.board
              /\ status' = once.status
              /\ gameOver' = once.gameOver
              /\ cellsRevealed' = once.cellsRevealed
              /\ minesFlagged' = once.minesFlagged]_vars

\* --------------------------------------------------------------------- C19
\* C19: every reveal call returns, and in one outer call no cell passes the
\* guard twice: the calls that pass it are as many as the cells the call
\* revealed and as the increments of cellsRevealed, so their number and
\* their nesting depth are at most rows * cols.
C19_CascadeBounded ==
    [][op'.name = "reveal"
       => LET new == RevealedCells(board') \ RevealedCells(board)
          IN  /\ op'.calls = Cardinality(new)
              /\ op'.calls = cellsRevealed' - cellsRevealed
              /\ op'.calls <= rows * cols
              /\ op'.depth <= op'.calls
              /\ op'.depth <= rows * cols
              /\ op'.ret = (op'.calls > 0)]_vars

\* A single reveal call that revealed every cell of a board of several
\* rows, its calls nested as deep as the board has cells.
C19_Witness ==
    /\ op.name = "reveal" /\ op.ret
    /\ rows > 1 /\ cols > 1
    /\ op.calls = rows * cols /\ op.depth = rows * cols

\* --------------------------------------------------------------------- C20
\* C20: while firstClick is true no cell is a mine and no cell is revealed,
\* and toggleFlag, revealAllMines and rejected reveals leave it true; the
\* first accepted reveal clears it, placing the mines; it becomes true
\* again by reset only; while it is false no call other than reset changes
\* any cell's isMine or adjacentMines.
C20_DeferredPlacement ==
    [][/\ firstClick => (MineCells(board) = {} /\ RevealedCells(board) = {})
       /\ firstClick' => (MineCells(board') = {} /\ RevealedCells(board') = {})
       /\ (firstClick /\ op'.name = "reveal" /\ op'.ret)
             => /\ ~firstClick'
                /\ MineCells(board') \in Shuffles(op'.r, op'.c)
       /\ (firstClick /\ ~(op'.name = "reveal" /\ op'.ret)) => firstClick'
       /\ (~firstClick /\ firstClick') => op'.name = "reset"
       /\ (~firstClick /\ op'.name # "reset")
             => \A p \in Grid : /\ board'[p].isMine = board[p].isMine
                                /\ board'[p].adjacentMines = board[p].adjacentMines]_vars

\* An accepted reveal that is not the first of its game, on a board with mines.
C20_Witness ==
    /\ ~firstClick /\ op.name = "reveal" /\ op.ret
    /\ status = "PLAYING"
    /\ cellsRevealed > op.calls
    /\ MineCells(board) # {}

\* --------------------------------------------------------------------- C21
\* The label a button has when it shows the cell as the board has it.
LabelOf(cell) ==
    IF cell.isFlagged THEN "flag"
    ELSE IF cell.isRevealed /\ cell.isMine THEN "mine"
    ELSE IF cell.isRevealed /\ cell.adjacentMines > 0 THEN ToString(cell.adjacentMines)
    ELSE ""

\* C21: after every click the window handled, each button shows its cell
\* as the engine's board has it: a revealed mine as a mine, a flagged cell
\* with a flag, an unflagged one without, a revealed cell flat.
C21_DisplayReflectsBoard ==
    \A p \in Grid :
        /\ ui.cells[p].label = LabelOf(board[p])
        /\ (ui.cells[p].relief = "NONE") = (board[p].isRevealed /\ ~board[p].isFlagged)

\* --------------------------------------------------------------------- C22
\* C22: no cell is revealed and flagged at once, and no call reveals a cell
\* that is flagged or flags a cell that is revealed.
C22_RevealedXorFlagged ==
    [][\A p \in Grid :
          /\ ~(board[p].isRevealed /\ board[p].isFlagged)
          /\ ~(board'[p].isRevealed /\ board'[p].isFlagged)
          /\ op'.name # "reset"
                => /\ board[p].isFlagged => ~board'[p].isRevealed
                   /\ board[p].isRevealed => ~board'[p].isFlagged]_vars

\* A lost game after the disclosure of its mines: one mine is revealed,
\* another is flagged and stays hidden.
C22_Witness ==
    /\ status = "LOST" /\ op.name = "revealAllMines"
    /\ \E p \in MineCells(board) : board[p].isFlagged /\ ~board[p].isRevealed
    /\ \E p \in MineCells(board) : board[p].isRevealed /\ ~board[p].isFlagged
====
